---- MODULE Spec2Model ----
(***************************************************************************)
(* Model of the SeedCodes API (src/main.py): the seeding routine           *)
(* _seed_if_empty with its two callers (startup_seed, manual_seed), the    *)
(* create/list project handlers and the diagnostics handler, over a        *)
(* document store holding the "project" collection.                        *)
(*                                                                         *)
(* Python values are modelled as follows.  An Optional value is a sequence *)
(* of length 0 (None) or 1 (the value).  A text that the code slices is a  *)
(* sequence of one-character strings.  A dict is a record.  An ObjectId is *)
(* [type |-> "ObjectId", n |-> k]; str() of it is [type |-> "str", ...].   *)
(* An operation that may raise evaluates to [kind |-> "return", ...] or    *)
(* [kind |-> "raise", msg |-> ...].                                        *)
(***************************************************************************)
EXTENDS Naturals, Sequences, FiniteSets

VARIABLES
    envUrl,      \* os.environ DATABASE_URL (Optional text)
    envName,     \* os.environ DATABASE_NAME (Optional text)
    db,          \* database.db: the module-level handle, None or a Database
    project,     \* the store's "project" collection, in insertion order
    nextOid,     \* the store's next fresh ObjectId
    pc,          \* per seeding run: "idle", "insert" (inside the for loop), "done"
    idx,         \* per seeding run: position of the for loop in SAMPLE_PROJECTS
    inserted,    \* per seeding run: the local variable `inserted`
    observed,    \* per seeding run: the local variable `count` (Optional)
    ret,         \* per seeding run: what _seed_if_empty returned or raised
    resp,        \* per seeding run: what the caller (hook or endpoint) produced
    attempts,    \* history, per run: the create_document calls made, in order
    seedAdds,    \* history: how often each sample was added by _seed_if_empty
    hist,        \* history of the seeding runs (see Finish, SeedCheck, SeedInsert)
    calls,       \* number of POST /api/seed calls so far
    listResp,    \* the last response of GET /api/projects (with its request)
    diagResp     \* the last outcome of GET /test

vars == <<envUrl, envName, db, project, nextOid, pc, idx, inserted, observed,
          ret, resp, attempts, seedAdds, hist, calls, listResp, diagResp>>

(***************************************************************************)
(* Bounds of the model.                                                    *)
(***************************************************************************)
MaxManualCalls == 2
MaxCreates == 1

(***************************************************************************)
(* Python values.                                                          *)
(***************************************************************************)
None == <<>>
Some(v) == <<v>>
Min(a, b) == IF a < b THEN a ELSE b
\* s[:n]
Take(s, n) == SubSeq(s, 1, Min(n, Len(s)))
\* truthiness of an Optional[str]: None and "" are falsy
Truthy(o) == o # None /\ o[1] # ""
Contains(seq, v) == \E i \in 1..Len(seq) : seq[i] = v
Return(v) == [kind |-> "return", value |-> v]
Raise(m) == [kind |-> "raise", msg |-> m]
Pending == [kind |-> "none"]

ObjectId(k) == [type |-> "ObjectId", n |-> k]
\* str(ObjectId): the identifier as text
Str(oid) == [type |-> "str", hex |-> oid.n]
IsObjectId(v) == v # None /\ v[1].type = "ObjectId"

\* exception messages the store's client can raise with (texts as sequences)
ShortMsg == <<"d", "o", "w", "n">>
LongMsg == [i \in 1..52 |-> IF i <= 50 THEN "e" ELSE "x"]
Msgs == {ShortMsg, LongMsg}

(***************************************************************************)
(* SAMPLE_PROJECTS.                                                        *)
(***************************************************************************)
SAMPLE_PROJECTS ==
    << [title |-> "Neon Path Tracer", tags |-> <<"webgl", "graphics", "shader">>],
       [title |-> "Synthwave ChatGPT UI", tags |-> <<"ai", "ui", "react">>],
       [title |-> "Robotic Arm Planner", tags |-> <<"robotics", "ik", "python">>],
       [title |-> "Audio-Driven Particles", tags |-> <<"audio", "threejs", "gpu">>] >>

SampleCount == Len(SAMPLE_PROJECTS)

\* payloads of POST /api/projects used by the model
Payloads ==
    { [title |-> "Custom", tags |-> <<"ai">>],
      [title |-> "Untagged", tags |-> <<>>] }
SeedPayloads == { [title |-> "Custom", tags |-> <<"ai">>] }

(***************************************************************************)
(* database.py: the handle and the two helpers.                            *)
(***************************************************************************)
DbNone == "None"
Database == "Database"

\* the handle database.py leaves behind: unset when the connection string is
\* absent, set when there is one (either for an empty one)
HandleFor(url, name) ==
    IF url = None THEN {DbNone}
    ELSE IF Truthy(url) THEN {Database} ELSE {DbNone, Database}

\* db.list_collection_names() on a reachable store
list_collection_names(coll) == IF coll = <<>> THEN <<>> ELSE <<"project">>

EnvValues == {None, Some(""), Some("mongodb://h"), Some("mongodb://k")}
NameValues == {None, Some(""), Some("app"), Some("prod")}

\* create_document(collection_name, record): the stored document
create_document(record, oid) ==
    [_id |-> oid, title |-> record.title, tags |-> record.tags]

\* a Mongo filter document applied to one stored document
Matches(d, q) ==
    IF q.kind = "all" THEN TRUE
    ELSE \E i \in 1..Len(q.values) : Contains(d.tags, q.values[i])

RECURSIVE get_documents(_, _, _)
\* get_documents(collection_name, filter, limit): at most `limit` matching
\* documents of the collection, in the store's order
get_documents(coll, q, limit) ==
    IF limit = 0 \/ coll = <<>> THEN <<>>
    ELSE IF Matches(Head(coll), q)
         THEN <<Head(coll)>> \o get_documents(Tail(coll), q, limit - 1)
         ELSE get_documents(Tail(coll), q, limit)

(***************************************************************************)
(* list_projects: the filter, and the ObjectId conversion of one document. *)
(***************************************************************************)
\* d.get(k)
Get(d, k) == IF k \in DOMAIN d THEN Some(d[k]) ELSE None

\* `{"tags": {"$in": [tag]}} if tag else {}`
filter_query(tag) ==
    IF Truthy(tag)
    THEN [kind |-> "in", field |-> "tags", values |-> <<tag[1]>>]
    ELSE [kind |-> "all"]

\* `if isinstance(d.get("_id"), ObjectId): d["id"] = str(d.pop("_id"))`
\* (faulty variant: d["_id"] read, not popped)
NormalizeKeepId(d) ==
    IF IsObjectId(Get(d, "_id"))
    THEN [k \in DOMAIN d \cup {"id"} |-> IF k = "id" THEN Str(d["_id"]) ELSE d[k]]
    ELSE d
Normalize(d) ==
    IF IsObjectId(Get(d, "_id"))
    THEN [k \in (DOMAIN d \ {"_id"}) \cup {"id"} |->
             IF k = "id" THEN Str(d["_id"]) ELSE d[k]]
    ELSE d

DefaultLimit == 24
Tags == {None, Some(""), Some("ai"), Some("gpu")}
Limits == {1, DefaultLimit}

\* list_projects(tag, limit), given what get_documents did
list_projects(tag, limit, fetched) ==
    IF fetched.kind = "raise"
    THEN [status |-> 500, detail |-> fetched.msg]
    ELSE [status |-> 200,
          body |-> [i \in 1..Len(fetched.value) |-> Normalize(fetched.value[i])]]

(***************************************************************************)
(* test_database.                                                          *)
(***************************************************************************)
CollectionsShown == 10
ErrorShown == 50

\* a status text: a fixed text followed by (part of) an exception message
Status(text, detail) == [text |-> text, detail |-> detail]

\* db.name
HandleName(name) == IF name = None THEN "test" ELSE name[1]

\* "Set" if os.getenv(...) else "Not Set"
Presence(v) == IF Truthy(v) THEN "Set" ELSE "Not Set"

\* test_database(), given the handle, what db.list_collection_names() did
\* and the two environment values.  Nothing outside the inner try raises, so
\* the outer except clause is never entered.
\* (faulty variant: no try around list_collection_names)
test_database_propagate(handle, lcn, url, name) ==
    IF handle # DbNone /\ lcn.kind = "raise"
    THEN Raise(lcn.msg)
    ELSE Return([backend |-> "Running",
                 database |-> Status("Connected & Working", <<>>),
                 database_url |-> Some(Presence(url)),
                 database_name |-> Some(Presence(name)),
                 connection_status |-> "Connected",
                 collections |-> <<>>])
test_database(handle, lcn, url, name) ==
    LET r0 == [backend |-> "Running",
               database |-> Status("Not Available", <<>>),
               database_url |-> None,
               database_name |-> None,
               connection_status |-> "Not Connected",
               collections |-> <<>>]
        r1 == [r0 EXCEPT !.database = Status("Available", <<>>),
                         !.database_url = Some("Configured"),
                         !.database_name = Some(HandleName(name)),
                         !.connection_status = "Connected"]
        r2 == IF handle # DbNone
              THEN IF lcn.kind = "return"
                   THEN [r1 EXCEPT !.collections = Take(lcn.value, CollectionsShown),
                                   !.database = Status("Connected & Working", <<>>)]
                   ELSE [r1 EXCEPT !.database =
                             Status("Connected but Error: ", Take(lcn.msg, ErrorShown))]
              ELSE [r0 EXCEPT !.database = Status("Available but not initialized", <<>>)]
    IN Return([r2 EXCEPT !.database_url = Some(Presence(url)),
                         !.database_name = Some(Presence(name))])

(***************************************************************************)
(* _seed_if_empty: the branch conditions and the returned dicts.           *)
(***************************************************************************)
Runs == {"startup", "manual"}

NotConfiguredResult == [seeded |-> FALSE, reason |-> "Database not configured"]
HasDataResult(count) ==
    [seeded |-> FALSE, reason |-> "Collection already has data", count |-> count]
\* (faulty variant: seeded only when every sample went in)
SeededResultAllOnly(n) == [seeded |-> n = SampleCount, inserted |-> n]
SeededResult(n) == [seeded |-> TRUE, inserted |-> n]

\* `if count > 0` (faulty variants: `count > 1`, `count < 0`)
AlreadyHasDataOff(count) == count > 1
AlreadyHasDataNever(count) == count < 0
AlreadyHasData(count) == count > 0

\* manual_seed: the routine's result, or HTTPException(500, str(e))
\* (faulty variant: the error is passed over as in the startup hook)
manual_seed_swallow(outcome) ==
    IF outcome.kind = "raise"
    THEN [status |-> 200, body |-> NotConfiguredResult]
    ELSE [status |-> 200, body |-> outcome.value]
manual_seed(outcome) ==
    IF outcome.kind = "raise"
    THEN [status |-> 500, detail |-> outcome.msg]
    ELSE [status |-> 200, body |-> outcome.value]

\* startup_seed: the result is dropped and every exception is passed over
startup_seed(outcome) == [completed |-> TRUE]

Caller(r, outcome) ==
    IF r = "startup" THEN startup_seed(outcome) ELSE manual_seed(outcome)

InLoop(r) == pc[r] = "insert"
OthersInLoop(r) == \E o \in Runs \ {r} : InLoop(o)

\* the run r has finished: what it produced, what its caller made of it, and
\* the history of runs
Finish(r, outcome, addedAny) ==
    /\ pc' = [pc EXCEPT ![r] = "done"]
    /\ ret' = [ret EXCEPT ![r] = outcome]
    /\ resp' = [resp EXCEPT ![r] = Caller(r, outcome)]
    /\ hist' = [hist EXCEPT
                  !.returned = @ \/ (outcome.kind = "return" /\ db # DbNone),
                  !.addRuns = IF addedAny THEN Min(@ + 1, 2) ELSE @,
                  !.overlap = @ \/ OthersInLoop(r)]

(***************************************************************************)
(* Lines 141-145 of a seeding run: the handle test, count_documents({})    *)
(* and the guard.  count_documents is one store operation.                 *)
(***************************************************************************)
SeedCheck(r) ==
    /\ pc[r] = "idle"
    /\ r = "manual" => calls.manual < MaxManualCalls
    /\ calls' = IF r = "manual" THEN [calls EXCEPT !.manual = @ + 1] ELSE calls
    /\ attempts' = [attempts EXCEPT ![r] = <<>>]
    /\ inserted' = [inserted EXCEPT ![r] = 0]
    /\ idx' = [idx EXCEPT ![r] = 1]
    /\ IF db = DbNone
       THEN /\ Finish(r, Return(NotConfiguredResult), FALSE)
            /\ observed' = [observed EXCEPT ![r] = None]
       ELSE \/ \E m \in Msgs :
                 /\ Finish(r, Raise(m), FALSE)
                 /\ observed' = [observed EXCEPT ![r] = None]
            \/ LET count == Len(project) IN
                 /\ observed' = [observed EXCEPT ![r] = Some(count)]
                 /\ IF AlreadyHasData(count)
                    THEN Finish(r, Return(HasDataResult(count)), FALSE)
                    ELSE /\ pc' = [pc EXCEPT ![r] = "insert"]
                         /\ hist' = [hist EXCEPT !.overlap = @ \/ OthersInLoop(r),
                                                 !.emptyRuns = Min(@ + 1, 2)]
                         /\ UNCHANGED <<ret, resp>>
    /\ UNCHANGED <<envUrl, envName, db, project, nextOid, seedAdds, listResp, diagResp>>

(***************************************************************************)
(* Lines 147-153: one iteration of the for loop (create_document either    *)
(* inserts or raises, and the exception is passed over); after the last    *)
(* sample the routine returns.                                             *)
(***************************************************************************)
\* (variant: the emptiness test repeated before every insert)
SeedInsertRecheck(r) ==
    /\ pc[r] = "insert"
    /\ idx[r] <= SampleCount
    /\ IF Len(project) > inserted[r]
       THEN /\ Finish(r, Return(HasDataResult(Len(project))), inserted[r] > 0)
            /\ UNCHANGED <<project, nextOid, inserted, seedAdds, attempts, idx>>
       ELSE /\ attempts' = [attempts EXCEPT
                              ![r] = Append(@, [k |-> idx[r], ok |-> TRUE, oid |-> nextOid])]
            /\ project' = Append(project,
                                 create_document(SAMPLE_PROJECTS[idx[r]], ObjectId(nextOid)))
            /\ nextOid' = nextOid + 1
            /\ inserted' = [inserted EXCEPT ![r] = @ + 1]
            /\ seedAdds' = [seedAdds EXCEPT ![idx[r]] = @ + 1]
            /\ idx' = [idx EXCEPT ![r] = @ + 1]
            /\ UNCHANGED <<pc, ret, resp, hist>>
    /\ UNCHANGED <<envUrl, envName, db, observed, calls, listResp, diagResp>>
\* (faulty variant: a failed insert ends the loop)
SeedInsertStop(r) ==
    /\ pc[r] = "insert"
    /\ idx[r] <= SampleCount
    /\ \E ok \in BOOLEAN :
         /\ attempts' = [attempts EXCEPT
                           ![r] = Append(@, [k |-> idx[r], ok |-> ok,
                                             oid |-> IF ok THEN nextOid ELSE 0])]
         /\ IF ok
            THEN /\ project' = Append(project,
                                      create_document(SAMPLE_PROJECTS[idx[r]], ObjectId(nextOid)))
                 /\ nextOid' = nextOid + 1
                 /\ inserted' = [inserted EXCEPT ![r] = @ + 1]
                 /\ seedAdds' = [seedAdds EXCEPT ![idx[r]] = @ + 1]
                 /\ idx' = [idx EXCEPT ![r] = @ + 1]
                 /\ hist' = [hist EXCEPT !.lateAdd = @ \/ hist.emptyRuns > 1]
            ELSE /\ idx' = [idx EXCEPT ![r] = SampleCount + 1]
                 /\ UNCHANGED <<project, nextOid, inserted, seedAdds, hist>>
    /\ UNCHANGED <<envUrl, envName, db, pc, observed, ret, resp, calls,
                   listResp, diagResp>>
SeedInsert(r) ==
    /\ pc[r] = "insert"
    /\ idx[r] <= SampleCount
    /\ \E ok \in BOOLEAN :
         /\ attempts' = [attempts EXCEPT
                           ![r] = Append(@, [k |-> idx[r], ok |-> ok,
                                             oid |-> IF ok THEN nextOid ELSE 0])]
         /\ IF ok
            THEN /\ project' = Append(project,
                                      create_document(SAMPLE_PROJECTS[idx[r]], ObjectId(nextOid)))
                 /\ nextOid' = nextOid + 1
                 /\ inserted' = [inserted EXCEPT ![r] = @ + 1]
                 /\ seedAdds' = [seedAdds EXCEPT ![idx[r]] = @ + 1]
                 /\ hist' = [hist EXCEPT !.lateAdd = @ \/ hist.emptyRuns > 1]
            ELSE UNCHANGED <<project, nextOid, inserted, seedAdds, hist>>
    /\ idx' = [idx EXCEPT ![r] = @ + 1]
    /\ UNCHANGED <<envUrl, envName, db, pc, observed, ret, resp, calls,
                   listResp, diagResp>>

SeedReturn(r) ==
    /\ pc[r] = "insert"
    /\ idx[r] > SampleCount
    /\ Finish(r, Return(SeededResult(inserted[r])), inserted[r] > 0)
    /\ UNCHANGED <<envUrl, envName, db, project, nextOid, idx, inserted, observed,
                   attempts, seedAdds, calls, listResp, diagResp>>

\* the next POST /api/seed request
ManualAgain ==
    /\ pc["manual"] = "done"
    /\ calls.manual < MaxManualCalls
    /\ pc' = [pc EXCEPT !["manual"] = "idle"]
    /\ ret' = [ret EXCEPT !["manual"] = Pending]
    /\ resp' = [resp EXCEPT !["manual"] = Pending]
    /\ observed' = [observed EXCEPT !["manual"] = None]
    /\ attempts' = [attempts EXCEPT !["manual"] = <<>>]
    /\ inserted' = [inserted EXCEPT !["manual"] = 0]
    /\ idx' = [idx EXCEPT !["manual"] = 1]
    /\ UNCHANGED <<envUrl, envName, db, project, nextOid, seedAdds, hist, calls,
                   listResp, diagResp>>

\* the documents of the collection that no seeding run added
Created == Len(project) - (seedAdds[1] + seedAdds[2] + seedAdds[3] + seedAdds[4])

(***************************************************************************)
(* POST /api/projects: create_document inserts, or raises and the handler  *)
(* answers 500 with the store unchanged.                                   *)
(***************************************************************************)
CreateProject(payloads) ==
    /\ Created < MaxCreates
    /\ \/ /\ db = Database
          /\ \E p \in payloads :
               /\ project' = Append(project, create_document(p, ObjectId(nextOid)))
               /\ nextOid' = nextOid + 1
       \/ UNCHANGED <<project, nextOid>>
    /\ UNCHANGED <<envUrl, envName, db, pc, idx, inserted, observed, ret, resp,
                   attempts, seedAdds, hist, calls, listResp, diagResp>>

(***************************************************************************)
(* GET /api/projects: get_documents returns the matching documents, or     *)
(* raises (always, when the handle is unset) and the handler answers 500.  *)
(***************************************************************************)
ListProjects ==
    /\ \E tag \in Tags, limit \in Limits :
         \E fetched \in (IF db = DbNone THEN {}
                         ELSE {Return(get_documents(project, filter_query(tag), limit))})
                        \cup {Raise(ShortMsg)} :
            listResp' = [tag |-> tag, limit |-> limit,
                         out |-> list_projects(tag, limit, fetched)]
    /\ UNCHANGED <<envUrl, envName, db, project, nextOid, pc, idx, inserted, observed,
                   ret, resp, attempts, seedAdds, hist, calls, diagResp>>

(***************************************************************************)
(* GET /test: db.list_collection_names() answers or raises (it is called   *)
(* only when the handle is set).                                           *)
(***************************************************************************)
TestDatabase ==
    /\ \E lcn \in {Return(list_collection_names(project))} \cup {Raise(m) : m \in Msgs} :
         diagResp' = [handle |-> db, lcn |-> lcn,
                      out |-> test_database(db, lcn, envUrl, envName)]
    /\ UNCHANGED <<envUrl, envName, db, project, nextOid, pc, idx, inserted, observed,
                   ret, resp, attempts, seedAdds, hist, calls, listResp>>

(***************************************************************************)
(* Initial states: the process has been configured from its environment    *)
(* and no handler has run; the store is empty.                             *)
(***************************************************************************)
InitEnv(urls, names) ==
    /\ envUrl \in urls
    /\ envName \in names
    /\ db \in HandleFor(envUrl, envName)
    /\ project = <<>>
    /\ nextOid = 1
    /\ pc = [r \in Runs |-> "idle"]
    /\ idx = [r \in Runs |-> 1]
    /\ inserted = [r \in Runs |-> 0]
    /\ observed = [r \in Runs |-> None]
    /\ ret = [r \in Runs |-> Pending]
    /\ resp = [r \in Runs |-> Pending]
    /\ attempts = [r \in Runs |-> <<>>]
    /\ seedAdds = [k \in 1..SampleCount |-> 0]
    /\ hist = [overlap |-> FALSE, returned |-> FALSE, addRuns |-> 0,
               emptyRuns |-> 0, lateAdd |-> FALSE]
    /\ calls = [manual |-> 0]
    /\ listResp = Pending
    /\ diagResp = Pending

\* seeding and listing: without and with a connection string
Init == InitEnv({None, Some("mongodb://h")}, {Some("app")})

\* one startup run and one POST /api/seed run, free to overlap, with
\* POST /api/projects calls in between
Next ==
    \/ \E r \in Runs : SeedCheck(r)
    \/ \E r \in Runs : SeedInsert(r)
    \/ \E r \in Runs : SeedReturn(r)
    \/ CreateProject(SeedPayloads)

Spec == Init /\ [][Next]_vars

\* seeding runs one after the other: the startup run and repeated
\* POST /api/seed calls in any order, none starting while another is in its loop
NextSeq ==
    \/ \E r \in Runs : ~OthersInLoop(r) /\ SeedCheck(r)
    \/ \E r \in Runs : SeedInsert(r)
    \/ \E r \in Runs : SeedReturn(r)
    \/ ManualAgain
    \/ CreateProject(SeedPayloads)

SpecSeq == Init /\ [][NextSeq]_vars

\* listing: the startup run, created projects and GET /api/projects
NextList ==
    \/ SeedCheck("startup")
    \/ SeedInsert("startup")
    \/ SeedReturn("startup")
    \/ CreateProject(Payloads)
    \/ ListProjects

SpecList == Init /\ [][NextList]_vars

\* diagnostics: every environment, created projects and GET /test
InitDiag == InitEnv(EnvValues, NameValues)

NextDiag ==
    \/ CreateProject(Payloads)
    \/ TestDatabase

SpecDiag == InitDiag /\ [][NextDiag]_vars

(***************************************************************************)
(* Vocabulary of the properties.                                           *)
(***************************************************************************)
\* the routine has returned a dict in run r, on a configured database
Returned(r) == pc[r] = "done" /\ ret[r].kind = "return" /\ db = Database
\* run r saw count = 0
ObservedEmpty(r) == observed[r] = Some(0)
\* the create_document calls of run r that raised / that inserted
Fails(r) == Cardinality({i \in 1..Len(attempts[r]) : ~attempts[r][i].ok})
\* the documents of the collection that run r added
AddedBy(r) ==
    {i \in 1..Len(project) :
        \E j \in 1..Len(attempts[r]) :
            attempts[r][j].ok /\ project[i]["_id"] = ObjectId(attempts[r][j].oid)}
\* the documents of the collection that hold sample k
Copies(k) == {i \in 1..Len(project) : project[i].title = SAMPLE_PROJECTS[k].title}
Samples == 1..SampleCount

(***************************************************************************)
(* C1 (as stated): a run that observes an empty collection inserts exactly *)
(* the 4 sample records and returns seeded = true.                         *)
(***************************************************************************)
C1_SeedsExactlyFour ==
    \A r \in Runs :
        Returned(r) /\ ObservedEmpty(r) =>
            /\ ret[r].value.seeded = TRUE
            /\ Cardinality(AddedBy(r)) = SampleCount

(***************************************************************************)
(* C1 (amended): a run that observes an empty collection returns           *)
(* seeded = true and has inserted at most 4 records, each sample at most   *)
(* once; exactly the 4 samples when none of its inserts failed.            *)
(***************************************************************************)
C1_SeedsUpToFour ==
    \A r \in Runs :
        Returned(r) /\ ObservedEmpty(r) =>
            /\ ret[r].value.seeded = TRUE
            /\ Cardinality(AddedBy(r)) <= SampleCount
            /\ \A k \in Samples : Cardinality(AddedBy(r) \cap Copies(k)) <= 1
            /\ Fails(r) = 0 =>
                 /\ Cardinality(AddedBy(r)) = SampleCount
                 /\ \A k \in Samples : Cardinality(AddedBy(r) \cap Copies(k)) = 1

C1_Witness ==
    \E r \in Runs :
        /\ Returned(r) /\ ObservedEmpty(r) /\ Fails(r) = 0
        /\ Cardinality(AddedBy(r)) = SampleCount

(***************************************************************************)
(* C2: a run that finds n > 0 documents in the collection (and whose count *)
(* query did not fail) ends at once, leaves the collection as it was and   *)
(* returns seeded = false with count = n.                                  *)
(***************************************************************************)
C2_NoOpStep ==
    \A r \in Runs :
        (/\ pc[r] = "idle" /\ pc'[r] # "idle"
         /\ db = Database /\ Len(project) > 0
         /\ ret'[r].kind # "raise")
        => /\ pc'[r] = "done"
           /\ project' = project
           /\ ret'[r].kind = "return"
           /\ ret'[r].value.seeded = FALSE
           /\ ret'[r].value.count = Len(project)

C2_NonEmptyIsNoOp == [][C2_NoOpStep]_vars

C2_Witness ==
    \E r \in Runs :
        /\ Returned(r) /\ observed[r] # None /\ observed[r][1] > 0
        /\ ret[r].value.seeded = FALSE
        /\ ret[r].value.count = Len(project)

(***************************************************************************)
(* C3 (as stated): with no two seeding runs overlapping, once a run on a   *)
(* configured database has returned the collection is non-empty, no sample *)
(* has been inserted more than once, and only the first run that observed  *)
(* an empty collection has added sample records.                           *)
(***************************************************************************)
C3_FirstRunSeeds ==
    ~hist.overlap =>
        /\ hist.returned => Len(project) > 0
        /\ \A k \in Samples : seedAdds[k] <= 1
        /\ ~hist.lateAdd

(***************************************************************************)
(* C3 (amended): with no two seeding runs overlapping, no sample has been  *)
(* inserted more than once and at most one run has added sample records;   *)
(* the collection is non-empty once a run on a configured database has     *)
(* returned, unless that run observed it empty and all its inserts failed. *)
(***************************************************************************)
C3_SeedsAtMostOnce ==
    ~hist.overlap =>
        /\ \A k \in Samples : seedAdds[k] <= 1 /\ Cardinality(Copies(k)) <= 1
        /\ hist.addRuns <= 1
        /\ \A r \in Runs :
             Returned(r) /\ ~(ret[r].value.seeded /\ ret[r].value.inserted = 0)
                => Len(project) > 0

C3_Witness ==
    /\ ~hist.overlap
    /\ hist.addRuns = 1
    /\ hist.lateAdd
    /\ calls.manual = MaxManualCalls
    /\ \A r \in Runs : Returned(r)
    /\ ret["manual"].value.seeded = FALSE

(***************************************************************************)
(* C4: the count and the inserts are not atomic.  When two runs have both  *)
(* observed count = 0 and none of their inserts failed, both have inserted *)
(* the whole sample set and both report seeded = true: every sample is in  *)
(* the collection twice (8 sample records).                                *)
(***************************************************************************)
C4_DoubleInsert ==
    \A r1, r2 \in Runs :
        (/\ r1 # r2
         /\ Returned(r1) /\ ObservedEmpty(r1) /\ Fails(r1) = 0
         /\ Returned(r2) /\ ObservedEmpty(r2) /\ Fails(r2) = 0)
        => /\ ret[r1].value = [seeded |-> TRUE, inserted |-> SampleCount]
           /\ ret[r2].value = [seeded |-> TRUE, inserted |-> SampleCount]
           /\ \A k \in Samples : Cardinality(Copies(k)) = 2
           /\ Len(project) - Created = 2 * SampleCount

C4_Witness ==
    /\ \A r \in Runs : Returned(r) /\ ObservedEmpty(r) /\ ret[r].value.seeded
    /\ Len(project) = 2 * SampleCount
    /\ \A k \in Samples : Cardinality(Copies(k)) = 2

(***************************************************************************)
(* C5: an error of the seeding routine is passed over by the startup hook, *)
(* which completes normally, and is answered by POST /api/seed with status *)
(* 500 and the error's message; without an error POST /api/seed answers    *)
(* with the routine's result.                                              *)
(***************************************************************************)
C5_ErrorRouting ==
    /\ pc["startup"] = "done" => resp["startup"] = [completed |-> TRUE]
    /\ pc["manual"] = "done" =>
         IF ret["manual"].kind = "raise"
         THEN resp["manual"].status = 500 /\ resp["manual"].detail = ret["manual"].msg
         ELSE resp["manual"].status = 200 /\ resp["manual"].body = ret["manual"].value

C5_Witness ==
    /\ pc["startup"] = "done" /\ ret["startup"].kind = "raise"
    /\ pc["manual"] = "done" /\ ret["manual"] = Raise(LongMsg)
    /\ resp["manual"].status = 500

(***************************************************************************)
(* C10: a run that observes an empty collection attempts the 4 samples in  *)
(* order, whichever attempts fail, and returns as `inserted` the number of *)
(* records it added to the collection: 4 minus the failed attempts.        *)
(***************************************************************************)
C10_BestEffortCount ==
    \A r \in Runs :
        Returned(r) /\ ObservedEmpty(r) =>
            /\ Len(attempts[r]) = SampleCount
            /\ \A i \in 1..SampleCount : attempts[r][i].k = i
            /\ ret[r].value.inserted = Cardinality(AddedBy(r))
            /\ ret[r].value.inserted = SampleCount - Fails(r)

C10_Witness ==
    \E r \in Runs :
        /\ Returned(r) /\ ObservedEmpty(r)
        /\ ~attempts[r][1].ok /\ attempts[r][2].ok /\ ~attempts[r][3].ok /\ attempts[r][4].ok
        /\ ret[r].value.inserted = 2

(***************************************************************************)
(* Vocabulary of the diagnostics and listing properties.                   *)
(***************************************************************************)
Diagnosed == diagResp # Pending
Listed == listResp # Pending /\ listResp.out.status = 200
ListedDocs == {listResp.out.body[i] : i \in 1..Len(listResp.out.body)}

(***************************************************************************)
(* C6 (as stated): GET /test never raises; with the handle unset every     *)
(* database field (database, database_url, database_name,                  *)
(* connection_status) reports a not-configured status; with a handle whose *)
(* list_collection_names fails it reports connected-but-erroring.          *)
(***************************************************************************)
C6_NeverRaisesAllUnset ==
    Diagnosed =>
        /\ diagResp.out.kind = "return"
        /\ diagResp.handle = DbNone =>
             /\ diagResp.out.value.database = Status("Available but not initialized", <<>>)
             /\ diagResp.out.value.connection_status = "Not Connected"
             /\ diagResp.out.value.database_url = Some("Not Set")
             /\ diagResp.out.value.database_name = Some("Not Set")
        /\ diagResp.handle # DbNone /\ diagResp.lcn.kind = "raise" =>
             /\ diagResp.out.value.database.text = "Connected but Error: "
             /\ diagResp.out.value.connection_status = "Connected"

(***************************************************************************)
(* C6 (amended): GET /test never raises; with the handle unset it reports  *)
(* database "Available but not initialized", connection_status             *)
(* "Not Connected" and no collections, while database_url and              *)
(* database_name report the environment and are "Not Set" whenever the     *)
(* corresponding value is absent; with a handle whose                      *)
(* list_collection_names fails it reports connected-but-erroring, with the *)
(* first 50 characters of the error.                                       *)
(***************************************************************************)
C6_NeverRaises ==
    Diagnosed =>
        /\ diagResp.out.kind = "return"
        /\ diagResp.handle = DbNone =>
             /\ diagResp.out.value.database = Status("Available but not initialized", <<>>)
             /\ diagResp.out.value.connection_status = "Not Connected"
             /\ diagResp.out.value.collections = <<>>
             /\ envUrl = None => diagResp.out.value.database_url = Some("Not Set")
             /\ envName = None => diagResp.out.value.database_name = Some("Not Set")
        /\ diagResp.handle # DbNone /\ diagResp.lcn.kind = "raise" =>
             /\ diagResp.out.value.database.text = "Connected but Error: "
             /\ Len(diagResp.out.value.database.detail) <= ErrorShown
             /\ \A i \in 1..Len(diagResp.out.value.database.detail) :
                    diagResp.out.value.database.detail[i] = diagResp.lcn.msg[i]
             /\ diagResp.out.value.connection_status = "Connected"

C6_Witness ==
    /\ Diagnosed
    /\ diagResp.handle = Database
    /\ diagResp.lcn = Raise(LongMsg)
    /\ diagResp.out.kind = "return"
    /\ Len(diagResp.out.value.database.detail) = ErrorShown

(***************************************************************************)
(* C7: the status object of GET /test never holds the value of either      *)
(* setting: database_url and database_name are each "Set" or "Not Set",    *)
(* decided only by whether the environment value is present.               *)
(***************************************************************************)
C7_PresenceOnly ==
    Diagnosed /\ diagResp.out.kind = "return" =>
        /\ diagResp.out.value.database_url =
              Some(IF envUrl # None THEN "Set" ELSE "Not Set")
        /\ diagResp.out.value.database_name =
              Some(IF envName # None THEN "Set" ELSE "Not Set")

C9_TagGivenFilters ==
    Listed /\ listResp.tag # None =>
        \A d \in ListedDocs : Contains(d.tags, listResp.tag[1])
====
